---- MODULE Spec2Model ----
(***************************************************************************)
(* A model of race_analysis: the derived channels (columns.py), load_race  *)
(* (race.py) and the lap detector (laps_data.py).                          *)
(*                                                                         *)
(* The derivation functions add columns to the table and entries to the    *)
(* units dict; initialize_channels calls them in a fixed order, and        *)
(* load_race calls the lap detector when the log has no "Lap Number".      *)
(*                                                                         *)
(* The lap detector:                                                       *)
(* identify_starting_point locates the start/finish point as the centroid  *)
(* of the most populated DBSCAN cluster of GPS fixes, and find_laps runs a *)
(* single pass over the rows of the table, numbering the laps and          *)
(* accumulating the time elapsed in the current lap.                       *)
(*                                                                         *)
(* GPS fixes are laid out on a local planar grid in metres, and the        *)
(* great-circle distance is the planar distance on that grid.  A mean is   *)
(* kept exact, as a pair <<sum, count>>, and a distance from a mean is     *)
(* compared after multiplying through by count.  Times are whole seconds.  *)
(* The table's index is the RangeIndex 0..n-1 that read_csv gives, so the  *)
(* label iterrows yields is the row's position.                            *)
(***************************************************************************)
EXTENDS Integers, Sequences, FiniteSets, TLC

(***************************************************************************)
(* Bounds of the model and the program's constants.                        *)
(***************************************************************************)
\* Rows of a table of the general input family.
MaxRows == 4

\* Largest cluster label DBSCAN hands out in the model (labels are -1..MaxLabel).
MaxLabel == 1

\* Rows of the table of the docstring example of find_laps.
ExampleRows == 10

\* threshold = 0.05 (kilometres), in metres.
ThresholdMetres == 50

\* current_lap_time >= 10: the shortest lap, in seconds, after the first.
MinLapSeconds == 10

COL_LAP_NUM == "Lap Number"

COL_LATITUDE == "GPS Latitude"

COL_LONGITUDE == "GPS Longitude"

COL_DELTA_TIME == "Delta Time"

COL_CURRENT_LAP_TIME == "Current Lap Time"

\* The DBSCAN label of a fix that belongs to no cluster.
NOISE == -1

\* Rows of a log that varies the timing and the speed.
MaxLogRows == 4

\* Rows of a table given to columns_during_state.
MaxMaskRows == 2

\* Rows of a table given to slice_into_df.
MaxSliceRows == 4

\* Rows of a table given to set_df_column.
MaxColumnRows == 3

\* Lap times a dataset of a lap-times file lists.
MaxLapTimes == 2

\* Rows of a log that varies the accelerations or the track, and of a table
\* the derivation functions are called on directly.
MaxShortLogRows == 3

\* Masses in kg.
MASS_DRIVER == 80

MASS_CAR == 513

\* Acceleration thresholds of the state flags, in hundredths of g.
BRK_THRESHOLD == -15

TPS_THRESHOLD == 5

CRN_THRESHOLD == 20

VARIABLES
    df,                 \* the table: column name -> sequence of magnitudes
    pc,                 \* position in find_laps
    raised,             \* the exception find_laps ended with, or "none"
    cluster_labels,     \* db.labels_ of identify_starting_point
    start,              \* (start_lat, start_lon), each a mean <<sum, count>>
    index,              \* index of the row the loop handles next
    current_lap,
    current_lap_time,
    is_new_lap,         \* is_new_lap of the row handled last
    lap_numbers,
    lap_times,
    units,              \* the units dict: column name -> unit
    call,               \* the derivation function called last, or "none"
    key,                \* the key a KeyError names, or ""
    lr,                 \* position in load_race
    step,               \* channels initialize_channels has set so far
    attrs,              \* df.attrs, the metadata of the table
    args,               \* the arguments of the last call of a utility
    ret,                \* what the last call of a utility returned
    shared,             \* the returned table's columns are views of df's
    cache,              \* LAP_JSON_DATA, the process-wide lap data
    files               \* the lap-times JSON files: path -> parsed content

vars == <<df, pc, raised, cluster_labels, start, index, current_lap,
          current_lap_time, is_new_lap, lap_numbers, lap_times,
          units, call, key, lr, step, attrs, args, ret, shared, cache, files>>

\* What only the table utilities and the lap-data lookups touch.
utilVars == <<attrs, args, ret, shared, cache, files>>

\* LAP_JSON_DATA = None
NotLoaded == [loaded |-> FALSE, data |-> <<>>]

\* No utility has been called, and the lap data are not loaded.
UtilitiesIdle ==
    /\ attrs = <<>>
    /\ args = <<>>
    /\ ret = <<>>
    /\ shared = FALSE
    /\ cache = NotLoaded
    /\ files = <<>>

\* What find_laps and identify_starting_point never touch.
chanVars == <<units, call, key, lr, step>>

(***************************************************************************)
(* Input tables.                                                           *)
(***************************************************************************)
\* Three places on a line of the grid, 50 m from one to the next.
Points == {<<0, 0>>, <<30, 40>>, <<60, 80>>}

\* The two outer places, 100 m apart.
OuterPoints == {<<0, 0>>, <<60, 80>>}

\* Delta Time values, in seconds.
DeltaTimes == {0, 5, 10}

Table(dt, pts) ==
    (COL_DELTA_TIME :> dt)
    @@ (COL_LATITUDE :> [i \in DOMAIN pts |-> pts[i][1]])
    @@ (COL_LONGITUDE :> [i \in DOMAIN pts |-> pts[i][2]])

RawTables(n, dts, places) ==
    {Table(dt, pts) : dt \in [1..n -> dts], pts \in [1..n -> places]}

NRows(t) == Len(t[COL_LATITUDE])

\* A table that already carries a "Lap Number" column (every row in lap 1).
WithLapColumn(t) == (COL_LAP_NUM :> [i \in 1..NRows(t) |-> 1]) @@ t

\* Tables of up to MaxRows rows: any Delta Time on a track between the two
\* outer places, and any track over the three places sampled every 10 s.
GeneralTables ==
    UNION {RawTables(n, DeltaTimes, OuterPoints) \cup RawTables(n, {10}, Points) :
              n \in 1..MaxRows}

\* The docstring example: ten rows, Delta Time 1 s each, any track between the
\* two outer places.
ExampleTables == RawTables(ExampleRows, {1}, OuterPoints)

InputTables ==
    GeneralTables \cup {WithLapColumn(t) : t \in GeneralTables} \cup ExampleTables

(***************************************************************************)
(* identify_starting_point                                                 *)
(***************************************************************************)
\* strip_df_of_units(df[[...]], rename_cols_with_units=False): a copy of the
\* three columns, magnitudes only.
minimal_df(t) ==
    [c \in {COL_DELTA_TIME, COL_LATITUDE, COL_LONGITUDE} |-> t[c]]

\* The place of row i of t on the grid.
Place(t, i) == <<t[COL_LATITUDE][i], t[COL_LONGITUDE][i]>>

\* The label arrays DBSCAN can return for the fixes of t: labels NOISE..MaxLabel,
\* fixes at the same place getting the same label (they have the same
\* neighbourhood), and the cluster labels in use being 0..k-1.
LabelArrays(t) ==
    {l \in {[i \in 1..NRows(t) |-> f[Place(t, i)]] : f \in [Points -> NOISE..MaxLabel]} :
        \A i \in 1..NRows(t) :
            \A b \in 0..MaxLabel : b < l[i] => \E j \in 1..NRows(t) : l[j] = b}

\* cluster_labels[cluster_labels >= 0]
NonNoise(labels) == SelectSeq(labels, LAMBDA l : l >= 0)

RECURSIVE MaxOf(_)
MaxOf(xs) ==
    IF Len(xs) = 0 THEN -1
    ELSE LET m == MaxOf(Tail(xs)) IN IF Head(xs) > m THEN Head(xs) ELSE m

\* np.bincount(xs): counts[b] for b in 0..max(xs), as a function on 0..max(xs);
\* the empty array for an empty xs.
BinCount(xs) ==
    [b \in 0..MaxOf(xs) |-> Cardinality({i \in DOMAIN xs : xs[i] = b})]

\* The same without the failure: an argmax that answers for an empty array.
ArgMaxRaises_Never(counts) == FALSE

\* np.argmax raises ValueError on an empty sequence.
ArgMaxRaises(counts) == DOMAIN counts = {}

\* np.argmax(counts): the scan from index 0 that keeps the first maximum.
RECURSIVE ArgMaxFrom(_, _, _)
ArgMaxFrom(counts, i, best) ==
    IF i \notin DOMAIN counts THEN best
    ELSE ArgMaxFrom(counts, i + 1, IF counts[i] > counts[best] THEN i ELSE best)

ArgMax(counts) == ArgMaxFrom(counts, 1, 0)

\* largest_cluster = np.argmax(np.bincount(cluster_labels[cluster_labels >= 0]))
LargestCluster(labels) == ArgMax(BinCount(NonNoise(labels)))

\* The same with the noise rows swept into the chosen cluster.
LargestClusterIndices_WithNoise(labels) ==
    {i \in DOMAIN labels :
        labels[i] = ArgMax(BinCount(NonNoise(labels))) \/ labels[i] = NOISE}

\* np.where(cluster_labels == largest_cluster)
LargestClusterIndices(labels) ==
    {i \in DOMAIN labels : labels[i] = LargestCluster(labels)}

RECURSIVE SumOver(_, _)
SumOver(col, rows) ==
    IF rows = {} THEN 0
    ELSE LET i == CHOOSE r \in rows : TRUE
         IN col[i] + SumOver(col, rows \ {i})

\* Series.mean() of the rows `rows` of a column, exact: <<sum, count>>.
Mean(col, rows) == <<SumOver(col, rows), Cardinality(rows)>>

\* centroid = (mean latitude, mean longitude) of the largest cluster's rows
Centroid(t, labels) ==
    <<Mean(t[COL_LATITUDE], LargestClusterIndices(labels)),
      Mean(t[COL_LONGITUDE], LargestClusterIndices(labels))>>

(***************************************************************************)
(* find_laps                                                               *)
(***************************************************************************)
\* The same without the guard.
HasLapColumn_Unchecked(t) == FALSE

\* 'Lap Number' in df.columns
HasLapColumn(t) == COL_LAP_NUM \in DOMAIN t

\* great_circle(start, (lat, lon)), squared and scaled by the square of the
\* means' count n: (n * distance)^2 on the planar grid.
DistanceFromStartSq(s, lat, lon) ==
    (s[1][2] * lat - s[1][1]) * (s[1][2] * lat - s[1][1])
    + (s[2][2] * lon - s[2][1]) * (s[2][2] * lon - s[2][1])

\* distance_from_start <= threshold
WithinThreshold(s, lat, lon) ==
    DistanceFromStartSq(s, lat, lon)
        <= (ThresholdMetres * s[1][2]) * (ThresholdMetres * s[1][2])

\* The same with the row's Delta Time added before the test.
TestedLapTime_AfterAccumulate(t, dt) == t + dt

\* The elapsed time the lap test reads: current_lap_time before the row's own
\* Delta Time is added to it.
TestedLapTime(t, dt) == t

\* is_new_lap without the index > 0 condition.
IsNewLap_NoIndexGuard(near, idx, t, lap) ==
    near /\ (t >= MinLapSeconds \/ lap = 1)

\* is_new_lap without the minimum lap time.
IsNewLap_NoDebounce(near, idx, t, lap) == near /\ idx > 0

\* is_new_lap with the minimum lap time applied to the first lap too.
IsNewLap_NoFirstLapExemption(near, idx, t, lap) ==
    near /\ idx > 0 /\ t >= MinLapSeconds

\* is_new_lap
IsNewLap(near, idx, t, lap) ==
    near /\ idx > 0 /\ (t >= MinLapSeconds \/ lap = 1)

\* The same with = in place of +=.
Accumulate_Overwrite(t, dt) == dt

\* current_lap_time += row['Delta Time']
Accumulate(t, dt) == t + dt

\* if is_new_lap: current_lap += 1
NextLap(new, lap) == IF new THEN lap + 1 ELSE lap

\* The same without the reset.
NextLapTime_NoReset(new, t) == t

\* if is_new_lap: current_lap_time = 0
NextLapTime(new, t) == IF new THEN 0 ELSE t

\* The same with the loop ending one row early.
LoopExhausted_OneShort(idx, n) == idx >= n - 1

\* The for loop has handled every row of minimal_df.
LoopExhausted(idx, n) == idx = n

\* The unit the log gives each column it holds.
UnitOf(c) ==
    CASE c = "Time" -> "s"
      [] c = COL_DELTA_TIME -> "s"
      [] c = "GPS Speed" -> "m/s"
      [] c = "GPS LonAcc" -> "gravity"
      [] c = "GPS LatAcc" -> "gravity"
      [] c = COL_LATITUDE -> "deg"
      [] c = COL_LONGITUDE -> "deg"
      [] OTHER -> "dimensionless"

\* generate_units_dict: one entry per column of the log.
UnitsDict(t) == [c \in DOMAIN t |-> UnitOf(c)]

Init ==
    /\ df \in InputTables
    /\ units = UnitsDict(df)
    /\ call = "none"
    /\ key = ""
    /\ lr = "none"
    /\ step = 0
    /\ UtilitiesIdle
    /\ pc = "start"
    /\ raised = "none"
    /\ cluster_labels = <<>>
    /\ start = <<>>
    /\ index = 0
    /\ current_lap = 0
    /\ current_lap_time = 0
    /\ is_new_lap = FALSE
    /\ lap_numbers = <<>>
    /\ lap_times = <<>>

loopVars == <<index, current_lap, current_lap_time, is_new_lap, lap_numbers, lap_times>>

\* find_laps, lines 553-554: the table already has a "Lap Number" column.
FindLapsDuplicate ==
    /\ pc = "start"
    /\ HasLapColumn(df)
    /\ pc' = "error"
    /\ raised' = "NameError"
    /\ UNCHANGED <<df, cluster_labels, start, loopVars, chanVars, utilVars>>

\* find_laps line 556 and identify_starting_point lines 482-486: DBSCAN labels
\* the fixes of the stripped copy.
FitDBSCAN ==
    /\ pc = "start"
    /\ ~HasLapColumn(df)
    /\ \E labels \in LabelArrays(minimal_df(df)) : cluster_labels' = labels
    /\ pc' = "clustered"
    /\ UNCHANGED <<df, raised, start, loopVars, chanVars, utilVars>>

\* identify_starting_point line 488 on labels that are all noise: np.argmax
\* raises, and the exception leaves find_laps.
IdentifyFails ==
    /\ pc = "clustered"
    /\ ArgMaxRaises(BinCount(NonNoise(cluster_labels)))
    /\ pc' = "error"
    /\ raised' = "ValueError"
    /\ UNCHANGED <<df, cluster_labels, start, loopVars, chanVars, utilVars>>

\* identify_starting_point lines 488-494: the centroid of the largest cluster.
IdentifyStart ==
    /\ pc = "clustered"
    /\ ~ArgMaxRaises(BinCount(NonNoise(cluster_labels)))
    /\ start' = Centroid(minimal_df(df), cluster_labels)
    /\ pc' = "located"
    /\ UNCHANGED <<df, raised, cluster_labels, loopVars, chanVars, utilVars>>

\* find_laps lines 557-565: the centroid is unpacked and the loop state set up;
\* the locals of identify_starting_point are gone.
BeginLoop ==
    /\ pc = "located"
    /\ cluster_labels' = <<>>
    /\ index' = 0
    /\ current_lap' = 1
    /\ current_lap_time' = 0
    /\ lap_numbers' = <<>>
    /\ lap_times' = <<>>
    /\ pc' = "loop"
    /\ UNCHANGED <<df, raised, start, is_new_lap, chanVars, utilVars>>

\* find_laps lines 567-583: one iteration of the loop.
LoopRow ==
    /\ pc = "loop"
    /\ ~LoopExhausted(index, NRows(df))
    /\ LET row == minimal_df(df)
           r == index + 1
           near == WithinThreshold(start, row[COL_LATITUDE][r], row[COL_LONGITUDE][r])
           dt == row[COL_DELTA_TIME][r]
           new == IsNewLap(near, index, TestedLapTime(current_lap_time, dt), current_lap)
           lap == NextLap(new, current_lap)
           t == NextLapTime(new, Accumulate(current_lap_time, dt))
       IN /\ is_new_lap' = new
          /\ current_lap' = lap
          /\ current_lap_time' = t
          /\ lap_numbers' = Append(lap_numbers, lap)
          /\ lap_times' = Append(lap_times, t)
          /\ index' = index + 1
    /\ UNCHANGED <<df, pc, raised, cluster_labels, start, chanVars, utilVars>>

\* find_laps lines 585-588: both columns are written and the table returned.
WriteColumns ==
    /\ pc = "loop"
    /\ LoopExhausted(index, NRows(df))
    /\ df' = (COL_CURRENT_LAP_TIME :> lap_times) @@ (COL_LAP_NUM :> lap_numbers) @@ df
    /\ pc' = "done"
    /\ UNCHANGED <<raised, cluster_labels, start, loopVars, chanVars, utilVars>>

Next ==
    \/ FindLapsDuplicate
    \/ FitDBSCAN
    \/ IdentifyFails
    \/ IdentifyStart
    \/ BeginLoop
    \/ LoopRow
    \/ WriteColumns

Spec == Init /\ [][Next]_vars

(***************************************************************************)
(* Derived channels (columns.py).  A column holds one value per row.  A    *)
(* missing value is NaN, a value that may be missing is <<x>> or NaN, and  *)
(* a quotient is kept exact as the pair <<numerator, denominator>>.        *)
(* Accelerations are in hundredths of g, times in whole seconds, speeds    *)
(* in m/s.                                                                 *)
(***************************************************************************)
NaN == <<>>

\* Series.diff(): no difference for the first row.
Diff(col) ==
    [i \in DOMAIN col |-> IF i = 1 THEN NaN ELSE <<col[i] - col[i - 1]>>]

\* Series.shift(): every value one row down, nothing in the first row.
Shift(col) ==
    [i \in DOMAIN col |-> IF i = 1 THEN NaN ELSE <<col[i - 1]>>]

\* Series.fillna(v)
FillNa(col, v) ==
    [i \in DOMAIN col |-> IF col[i] = NaN THEN v ELSE col[i][1]]

\* The same with the zeros left in place.
ReplaceZero_Kept(col) == [i \in DOMAIN col |-> <<col[i]>>]

\* Series.replace(0, np.nan)
ReplaceZero(col) ==
    [i \in DOMAIN col |-> IF col[i] = 0 THEN NaN ELSE <<col[i]>>]

\* numerator / denominator, row by row: NaN where the denominator is NaN.
Divide(num, den) ==
    [i \in DOMAIN num |-> IF den[i] = NaN THEN NaN ELSE <<num[i], den[i][1]>>]

\* Series.cumsum()
RECURSIVE PrefixSum(_, _)
PrefixSum(col, i) == IF i = 0 THEN 0 ELSE PrefixSum(col, i - 1) + col[i]

CumSum(col) == [i \in DOMAIN col |-> PrefixSum(col, i)]

Abs(x) == IF x < 0 THEN -x ELSE x

\* The outcome of a call: the table, the units dict and the exception raised.
Outcome(t, u, exc, k) == [df |-> t, units |-> u, raised |-> exc, key |-> k]

\* Subscripting the table or the units dict with a name it does not hold.
KeyError(t, u, name) == Outcome(t, u, "KeyError", name)

\* len(df)
Rows(t) == IF DOMAIN t = {} THEN 0 ELSE Len(t[CHOOSE c \in DOMAIN t : TRUE])

\* The same with the first row left out.
Reindex_FirstRowDropped(data, t) == Tail(data)

\* df[name] = data aligns the Series with the table's index: rows the
\* Series lacks get NaN and rows the table lacks are left out.  A table
\* without columns takes the index of the Series.
Reindex(data, t) ==
    IF DOMAIN t = {} THEN data
    ELSE [i \in 1..Rows(t) |-> IF i \in DOMAIN data THEN data[i] ELSE NaN]

\* set_df_column: df[name] = data; units_dict[name] = str(data_units).
\* Assigning to a name the table holds replaces the column.
set_df_column(t, u, name, data, data_units) ==
    Outcome((name :> Reindex(data, t)) @@ t, (name :> data_units) @@ u, "none", "")

\* The delta taken as a plain number.
DeltaUnits_Dimensionless(u, col_to_delta) == "dimensionless"

\* set_delta: data_units = units[col_to_delta]
DeltaUnits(u, col_to_delta) == u[col_to_delta]

\* set_delta: units[col_to_delta] is read first, then df[col_to_delta].
set_delta(t, u, col_to_delta, delta_name) ==
    IF col_to_delta \notin DOMAIN u THEN KeyError(t, u, col_to_delta)
    ELSE IF col_to_delta \notin DOMAIN t THEN KeyError(t, u, col_to_delta)
    ELSE set_df_column(t, u, delta_name, FillNa(Diff(t[col_to_delta]), 0),
                       DeltaUnits(u, col_to_delta))

\* The unit pint gives the quotient of a column by Delta Time (seconds).
PerSecond(unit) ==
    CASE unit = "m/s" -> "meter / second ** 2"
      [] unit = "joules" -> "joule / second"
      [] OTHER -> "1 / second"

\* set_time_derivative: df[col_to_derive] is read first, then
\* df['Delta Time']; the unit is the one the quotient carries.
set_time_derivative(t, u, col_to_derive, derivative_name) ==
    IF col_to_derive \notin DOMAIN t THEN KeyError(t, u, col_to_derive)
    ELSE IF COL_DELTA_TIME \notin DOMAIN t THEN KeyError(t, u, COL_DELTA_TIME)
    ELSE set_df_column(t, u, derivative_name,
                       Divide(FillNa(Diff(t[col_to_derive]), 0),
                              ReplaceZero(t[COL_DELTA_TIME])),
                       PerSecond(u[col_to_derive]))

set_delta_time(t, u) == set_delta(t, u, "Time", COL_DELTA_TIME)

\* Element-wise product of two columns.
Times(a, b) == [i \in DOMAIN a |-> a[i] * b[i]]

\* The cumulative sum without the shift.
Travelled_Unshifted(speed, dt) == CumSum(Times(speed, dt))

\* (speed.shift().fillna(0) * dt.shift().fillna(0)).cumsum(); m/s times s is
\* already metres.
Travelled(speed, dt) ==
    CumSum(Times(FillNa(Shift(speed), 0), FillNa(Shift(dt), 0)))

set_Distance_on_GPS_Speed(t, u) ==
    IF "GPS Speed" \notin DOMAIN t THEN KeyError(t, u, "GPS Speed")
    ELSE IF COL_DELTA_TIME \notin DOMAIN t THEN KeyError(t, u, COL_DELTA_TIME)
    ELSE set_df_column(t, u, "Distance on GPS Speed",
                       Travelled(t["GPS Speed"], t[COL_DELTA_TIME]), "m")

\* (lon**2 + lat**2)**(1/2), kept as the square root of a whole number.
set_GPS_G_Sum(t, u) ==
    IF "GPS LonAcc" \notin DOMAIN t THEN KeyError(t, u, "GPS LonAcc")
    ELSE IF "GPS LatAcc" \notin DOMAIN t THEN KeyError(t, u, "GPS LatAcc")
    ELSE set_df_column(t, u, "GPS G Sum",
                       [i \in DOMAIN t["GPS LonAcc"] |->
                           <<"sqrt", t["GPS LonAcc"][i] * t["GPS LonAcc"][i]
                                     + t["GPS LatAcc"][i] * t["GPS LatAcc"][i]>>],
                       "gravity")

\* The braking threshold taken as inclusive.
IsBraking_Inclusive(lon) == lon <= BRK_THRESHOLD

\* df['GPS LonAcc'] < Q_(-0.15, 'gravity')
IsBraking(lon) == lon < BRK_THRESHOLD

\* The throttle flag set below the threshold instead of above it.
IsThrottle_Below(lon) == lon < TPS_THRESHOLD

\* df['GPS LonAcc'] > Q_(0.05, 'gravity')
IsThrottle(lon) == lon > TPS_THRESHOLD

\* abs(df['GPS LatAcc']) > Q_(0.2, 'gravity')
IsCornering(lat) == Abs(lat) > CRN_THRESHOLD

set_GPS_BRK_On(t, u) ==
    IF "GPS LonAcc" \notin DOMAIN t THEN KeyError(t, u, "GPS LonAcc")
    ELSE set_df_column(t, u, "GPS BRK On",
                       [i \in DOMAIN t["GPS LonAcc"] |->
                           IF IsBraking(t["GPS LonAcc"][i]) THEN 1 ELSE 0],
                       "dimensionless")

set_GPS_TPS_On(t, u) ==
    IF "GPS LonAcc" \notin DOMAIN t THEN KeyError(t, u, "GPS LonAcc")
    ELSE set_df_column(t, u, "GPS TPS On",
                       [i \in DOMAIN t["GPS LonAcc"] |->
                           IF IsThrottle(t["GPS LonAcc"][i]) THEN 1 ELSE 0],
                       "dimensionless")

set_GPS_CRN_On(t, u) ==
    IF "GPS LatAcc" \notin DOMAIN t THEN KeyError(t, u, "GPS LatAcc")
    ELSE set_df_column(t, u, "GPS CRN On",
                       [i \in DOMAIN t["GPS LatAcc"] |->
                           IF IsCornering(t["GPS LatAcc"][i]) THEN 1 ELSE 0],
                       "dimensionless")

\* Coasting as soon as one of the three flags is off.
IsCoasting_AnyOff(brk, tps, crn) == brk = 0 \/ tps = 0 \/ crn = 0

\* (BRK == zero) & (TPS == zero) & (CRN == zero)
IsCoasting(brk, tps, crn) == brk = 0 /\ tps = 0 /\ crn = 0

set_GPS_CST_On(t, u) ==
    IF "GPS BRK On" \notin DOMAIN t THEN KeyError(t, u, "GPS BRK On")
    ELSE IF "GPS TPS On" \notin DOMAIN t THEN KeyError(t, u, "GPS TPS On")
    ELSE IF "GPS CRN On" \notin DOMAIN t THEN KeyError(t, u, "GPS CRN On")
    ELSE set_df_column(t, u, "GPS CST On",
                       [i \in DOMAIN t["GPS BRK On"] |->
                           IF IsCoasting(t["GPS BRK On"][i], t["GPS TPS On"][i],
                                         t["GPS CRN On"][i])
                           THEN 1 ELSE 0],
                       "dimensionless")

set_acceleration(t, u) == set_time_derivative(t, u, "GPS Speed", "Acceleration")

\* MASS_VEHICLE = MASS_DRIVER + MASS_CAR, in kg.
MASS_VEHICLE == MASS_DRIVER + MASS_CAR

\* 0.5 * mass * speed**2, in joules; speeds are even, so the half is exact.
set_vehicle_kinetic_energy(t, u) ==
    IF "GPS Speed" \notin DOMAIN t THEN KeyError(t, u, "GPS Speed")
    ELSE set_df_column(t, u, "Vehicle Kinetic Energy",
                       [i \in DOMAIN t["GPS Speed"] |->
                           (MASS_VEHICLE * t["GPS Speed"][i] * t["GPS Speed"][i]) \div 2],
                       "joules")

set_delta_vehicle_kinetic_energy(t, u) ==
    set_delta(t, u, "Vehicle Kinetic Energy", "Delta KE")

\* MASS_VEHICLE * lon * speed converted to watts: lon is in hundredths of g
\* and g is 9.80665 m/s**2, so a product p is p * 196133 / 2000000 watts,
\* kept as <<p, 196133, 2000000>>.
PowerMav(lon, speed) ==
    [i \in DOMAIN lon |-> <<MASS_VEHICLE * lon[i] * speed[i], 196133, 2000000>>]

\* set_vehicle_power: 'Power - dKE' is set first; 'Power - mav' is computed
\* and set after it, on the table that already holds 'Power - dKE'.
set_vehicle_power(t, u) ==
    LET first == set_time_derivative(t, u, "Vehicle Kinetic Energy", "Power - dKE")
    IN  IF first.raised # "none" THEN first
        ELSE IF "GPS LonAcc" \notin DOMAIN first.df
             THEN KeyError(first.df, first.units, "GPS LonAcc")
        ELSE IF "GPS Speed" \notin DOMAIN first.df
             THEN KeyError(first.df, first.units, "GPS Speed")
        ELSE set_df_column(first.df, first.units, "Power - mav",
                           PowerMav(first.df["GPS LonAcc"], first.df["GPS Speed"]),
                           "watts")

\* The order with the coasting flag set before the three flags it reads.
Pipeline_CoastingFirst ==
    <<"set_delta_time", "set_Distance_on_GPS_Speed", "set_GPS_G_Sum",
      "set_GPS_CST_On", "set_GPS_BRK_On", "set_GPS_TPS_On", "set_GPS_CRN_On",
      "set_acceleration", "set_vehicle_kinetic_energy",
      "set_delta_vehicle_kinetic_energy", "set_vehicle_power">>

\* initialize_channels: initialize_rs3_channels followed by
\* initialize_custom_channels.
Pipeline ==
    <<"set_delta_time", "set_Distance_on_GPS_Speed", "set_GPS_G_Sum",
      "set_GPS_BRK_On", "set_GPS_TPS_On", "set_GPS_CRN_On", "set_GPS_CST_On",
      "set_acceleration", "set_vehicle_kinetic_energy",
      "set_delta_vehicle_kinetic_energy", "set_vehicle_power">>

\* The derivation functions of columns.py.
Functions == {Pipeline[i] : i \in DOMAIN Pipeline}

\* Calling derivation function f on table t with units dict u.
Derive(f, t, u) ==
    CASE f = "set_delta_time" -> set_delta_time(t, u)
      [] f = "set_Distance_on_GPS_Speed" -> set_Distance_on_GPS_Speed(t, u)
      [] f = "set_GPS_G_Sum" -> set_GPS_G_Sum(t, u)
      [] f = "set_GPS_BRK_On" -> set_GPS_BRK_On(t, u)
      [] f = "set_GPS_TPS_On" -> set_GPS_TPS_On(t, u)
      [] f = "set_GPS_CRN_On" -> set_GPS_CRN_On(t, u)
      [] f = "set_GPS_CST_On" -> set_GPS_CST_On(t, u)
      [] f = "set_acceleration" -> set_acceleration(t, u)
      [] f = "set_vehicle_kinetic_energy" -> set_vehicle_kinetic_energy(t, u)
      [] f = "set_delta_vehicle_kinetic_energy" -> set_delta_vehicle_kinetic_energy(t, u)
      [] f = "set_vehicle_power" -> set_vehicle_power(t, u)

(***************************************************************************)
(* Logs: the raw columns of a data-logger export.  A row is given as       *)
(* <<time increment, speed, longitudinal acc., lateral acc., place>>.      *)
(***************************************************************************)
LogTable(rows) ==
    ("Time" :> CumSum([i \in DOMAIN rows |-> rows[i][1]]))
    @@ ("GPS Speed" :> [i \in DOMAIN rows |-> rows[i][2]])
    @@ ("GPS LonAcc" :> [i \in DOMAIN rows |-> rows[i][3]])
    @@ ("GPS LatAcc" :> [i \in DOMAIN rows |-> rows[i][4]])
    @@ (COL_LATITUDE :> [i \in DOMAIN rows |-> rows[i][5][1]])
    @@ (COL_LONGITUDE :> [i \in DOMAIN rows |-> rows[i][5][2]])

\* The logs of up to max rows drawn from samples.
LogsOver(samples, max) ==
    UNION {{LogTable(rows) : rows \in [1..n -> samples]} : n \in 1..max}

\* Speeds in m/s.
Speeds == {0, 2, 4}

\* <<longitudinal, lateral>> accelerations in hundredths of g: below, at and
\* above each threshold.
Accelerations ==
    {<<-20, 0>>, <<-15, 20>>, <<5, -20>>, <<10, 0>>, <<0, -30>>, <<0, 30>>, <<-20, 30>>}

\* Rows that vary the timing and the speed, the accelerations, and the track.
TimingRows == {<<d, v, 0, 0, <<0, 0>>>> : d \in {0, 10}, v \in Speeds}

AccelerationRows == {<<10, 2, a[1], a[2], <<0, 0>>>> : a \in Accelerations}

TrackRows == {<<d, 2, 0, 0, p>> : d \in {0, 10}, p \in OuterPoints}

\* A log that already carries a "Lap Number" column (every row in lap 1).
WithLapNumber(t) == (COL_LAP_NUM :> [i \in DOMAIN t["Time"] |-> 1]) @@ t

\* The logs load_race is given.
LogTables ==
    LogsOver(TimingRows, MaxLogRows)
    \cup LogsOver(AccelerationRows, MaxShortLogRows)
    \cup LogsOver(TrackRows, MaxShortLogRows)
    \cup {WithLapNumber(t) : t \in LogsOver(TrackRows, MaxShortLogRows)}

\* A table without column c.
Without(t, c) == [x \in DOMAIN t \ {c} |-> t[x]]

\* A log exported with the 'GPS BRK On' math channel, set on every row.
WithBrakingChannel(t) == ("GPS BRK On" :> [i \in DOMAIN t["Time"] |-> 1]) @@ t

ChannelRows == {<<0, 2, -20, 0, <<0, 0>>>>, <<10, 4, 10, 30, <<0, 0>>>>}

\* The tables the derivation functions are called on directly: complete logs,
\* logs without 'GPS LonAcc', and logs that carry 'GPS BRK On' already.
ChannelTables ==
    LogsOver(ChannelRows, MaxShortLogRows)
    \cup {Without(t, "GPS LonAcc") : t \in LogsOver(ChannelRows, MaxShortLogRows)}
    \cup {WithBrakingChannel(t) : t \in LogsOver(ChannelRows, MaxShortLogRows)}

\* The lap detector has not been called.
LapDetectorIdle ==
    /\ pc = "idle"
    /\ cluster_labels = <<>>
    /\ start = <<>>
    /\ index = 0
    /\ current_lap = 0
    /\ current_lap_time = 0
    /\ is_new_lap = FALSE
    /\ lap_numbers = <<>>
    /\ lap_times = <<>>

lapVars == <<pc, cluster_labels, start, loopVars>>

(***************************************************************************)
(* The derivation functions called directly, in any order.  An exception   *)
(* ends the run.                                                           *)
(***************************************************************************)
InitChannels ==
    /\ df \in ChannelTables
    /\ units = UnitsDict(df)
    /\ raised = "none"
    /\ call = "none"
    /\ key = ""
    /\ lr = "none"
    /\ step = 0
    /\ UtilitiesIdle
    /\ LapDetectorIdle

CallDerivation ==
    /\ raised = "none"
    /\ \E f \in Functions :
        LET r == Derive(f, df, units)
        IN  /\ call' = f
            /\ df' = r.df
            /\ units' = r.units
            /\ raised' = r.raised
            /\ key' = r.key
    /\ UNCHANGED <<lr, step, lapVars, utilVars>>

NextChannels == CallDerivation

SpecChannels == InitChannels /\ [][NextChannels]_vars

(***************************************************************************)
(* load_race (race.py): the units dict, initialize_channels, and the lap   *)
(* detector when the log carries no "Lap Number" column.                    *)
(***************************************************************************)
InitLoad ==
    /\ df \in LogTables
    /\ units = UnitsDict(df)
    /\ raised = "none"
    /\ call = "none"
    /\ key = ""
    /\ lr = "initialize_channels"
    /\ step = 0
    /\ UtilitiesIdle
    /\ LapDetectorIdle

\* initialize_channels: the next function of the pipeline.
InitializeChannelsStep ==
    /\ lr = "initialize_channels"
    /\ step < Len(Pipeline)
    /\ LET f == Pipeline[step + 1]
           r == Derive(f, df, units)
       IN  /\ call' = f
           /\ df' = r.df
           /\ units' = r.units
           /\ raised' = r.raised
           /\ key' = r.key
           /\ step' = IF r.raised = "none" THEN step + 1 ELSE step
           /\ lr' = IF r.raised = "none" THEN lr ELSE "raised"
    /\ UNCHANGED <<lapVars, utilVars>>

\* The attrs load_race gives the table: where the log was read from.
LoadedAttrs == [data_filepath |-> "data/formatted/log.csv", data_filename |-> "log"]

\* The log carries "Lap Number": attrs are set and the table is returned.
LoadRaceReturns ==
    /\ lr = "initialize_channels"
    /\ step = Len(Pipeline)
    /\ COL_LAP_NUM \in DOMAIN df
    /\ lr' = "returned"
    /\ attrs' = LoadedAttrs
    /\ UNCHANGED <<df, units, raised, call, key, step, lapVars, args, ret, shared, cache, files>>

\* The log carries no "Lap Number": find_laps is called.
LoadRaceFindsLaps ==
    /\ lr = "initialize_channels"
    /\ step = Len(Pipeline)
    /\ COL_LAP_NUM \notin DOMAIN df
    /\ lr' = "find_laps"
    /\ pc' = "start"
    /\ UNCHANGED <<df, units, raised, call, key, step, cluster_labels, start, loopVars, utilVars>>

\* find_laps raised: the exception leaves load_race.
FindLapsPropagates ==
    /\ lr = "find_laps"
    /\ pc = "error"
    /\ lr' = "raised"
    /\ UNCHANGED <<df, units, raised, call, key, step, lapVars, utilVars>>

\* find_laps returned: load_race raises NameError.
LoadRaceRaises ==
    /\ lr = "find_laps"
    /\ pc = "done"
    /\ raised' = "NameError"
    /\ lr' = "raised"
    /\ UNCHANGED <<df, units, call, key, step, lapVars, utilVars>>

NextLoad ==
    \/ InitializeChannelsStep
    \/ LoadRaceReturns
    \/ LoadRaceFindsLaps
    \/ FitDBSCAN
    \/ IdentifyFails
    \/ IdentifyStart
    \/ BeginLoop
    \/ LoopRow
    \/ WriteColumns
    \/ FindLapsPropagates
    \/ LoadRaceRaises

SpecLoad == InitLoad /\ [][NextLoad]_vars

(***************************************************************************)
(* The columns find_laps produces, as far as they exist: the lists the     *)
(* loop is building, and the columns of the table once they are written.   *)
(***************************************************************************)
Counting == pc \in {"loop", "done"}

LapNumbers == IF pc = "done" THEN df[COL_LAP_NUM] ELSE lap_numbers

CurrentLapTimes == IF pc = "done" THEN df[COL_CURRENT_LAP_TIME] ELSE lap_times

\* Rows (1-based) the loop has handled.
Handled == 1..Len(LapNumbers)

\* The counter's state when row i is reached: the values emitted for row i-1.
LapBefore(i) == IF i = 1 THEN 1 ELSE LapNumbers[i - 1]

ElapsedBefore(i) == IF i = 1 THEN 0 ELSE CurrentLapTimes[i - 1]

\* Row i lies within 50 m of the start/finish point.
NearStart(i) ==
    DistanceFromStartSq(start, df[COL_LATITUDE][i], df[COL_LONGITUDE][i])
        <= (50 * start[1][2]) * (50 * start[1][2])

\* The rule of a lap boundary, on row i (row index i - 1).
BoundaryRule(i) ==
    NearStart(i) /\ i - 1 > 0 /\ (ElapsedBefore(i) >= 10 \/ LapBefore(i) = 1)

\* Row i is a lap boundary in the output: the lap number changes there.
BoundaryRow(i) == LapNumbers[i] # LapBefore(i)

\* C1: the "Lap Number" column is non-decreasing in row order and is 1 at
\* row 0, also when row 0 lies within the threshold.
C1_LapNumberMonotone ==
    Counting =>
        /\ \A i \in Handled : i = 1 => LapNumbers[i] = 1
        /\ \A i \in Handled : i > 1 => LapNumbers[i - 1] <= LapNumbers[i]

C1_Witness ==
    /\ pc = "done"
    /\ NearStart(1)
    /\ df[COL_LAP_NUM][1] = 1
    /\ df[COL_LAP_NUM][NRows(df)] >= 2

\* C2: every lap boundary but the first comes after at least 10 s accumulated
\* in "Current Lap Time" since the boundary before it, so no two boundaries
\* after the first are closer than 10 s of Delta Time.
C2_Debounce ==
    Counting =>
        \A i \in Handled :
            (BoundaryRow(i) /\ LapBefore(i) >= 2) =>
                /\ CurrentLapTimes[i - 1] >= 10
                /\ \A j \in Handled :
                      (j < i /\ BoundaryRow(j)) =>
                          SumOver(df[COL_DELTA_TIME], (j + 1)..(i - 1)) >= 10

C2_Witness ==
    /\ pc = "done"
    /\ \E i, j \in Handled :
          /\ j < i
          /\ BoundaryRow(j)
          /\ BoundaryRow(i)
          /\ df[COL_LAP_NUM][i] = 3
          /\ df[COL_CURRENT_LAP_TIME][i - 1] >= 10

\* C3: a row is a lap boundary iff it is within 50 m, its index is > 0 and
\* (the elapsed time is >= 10 s or the current lap is 1); in lap 1 a row after
\* row 0 within 50 m is a boundary whatever the elapsed time.
C3_BoundaryIff ==
    Counting =>
        /\ \A i \in Handled : BoundaryRow(i) <=> BoundaryRule(i)
        /\ (pc = "loop" /\ index >= 1) => (is_new_lap <=> BoundaryRule(index))
        /\ \A i \in Handled :
              (i > 1 /\ NearStart(i) /\ LapBefore(i) = 1) => BoundaryRow(i)

C3_Witness ==
    /\ pc = "done"
    /\ \E i \in Handled :
          i > 1 /\ LapBefore(i) = 1 /\ ElapsedBefore(i) < 10 /\ BoundaryRow(i)
    /\ \E i \in Handled :
          NearStart(i) /\ LapBefore(i) >= 2 /\ ElapsedBefore(i) < 10 /\ ~BoundaryRow(i)

\* C4: the lap test reads the elapsed time accumulated through the previous
\* row: in lap >= 2 a row within 50 m whose own Delta Time lifts the elapsed
\* time from below 10 s to 10 s or more is not a boundary, and its Delta Time
\* is added to the lap in progress.
C4_TestBeforeAccumulate ==
    Counting =>
        \A i \in Handled :
            ( /\ i > 1
              /\ LapBefore(i) >= 2
              /\ NearStart(i)
              /\ ElapsedBefore(i) < 10
              /\ ElapsedBefore(i) + df[COL_DELTA_TIME][i] >= 10 ) =>
                /\ LapNumbers[i] = LapBefore(i)
                /\ CurrentLapTimes[i] = ElapsedBefore(i) + df[COL_DELTA_TIME][i]

C4_Witness ==
    /\ pc = "done"
    /\ \E i \in Handled :
          /\ i > 1
          /\ LapBefore(i) >= 2
          /\ NearStart(i)
          /\ ElapsedBefore(i) < 10
          /\ ElapsedBefore(i) + df[COL_DELTA_TIME][i] >= 10
          /\ df[COL_LAP_NUM][i] = LapBefore(i)

\* C5: at a lap-boundary row the values emitted are the ones after the
\* increment and the reset: "Lap Number" is the previous row's plus 1 and
\* "Current Lap Time" is 0.
C5_BoundaryEmitsPostReset ==
    Counting =>
        \A i \in Handled :
            BoundaryRule(i) =>
                /\ LapNumbers[i] = LapNumbers[i - 1] + 1
                /\ CurrentLapTimes[i] = 0

C5_Witness ==
    /\ pc = "done"
    /\ \E i \in Handled :
          /\ BoundaryRule(i)
          /\ ElapsedBefore(i) > 0
          /\ df[COL_DELTA_TIME][i] > 0
          /\ df[COL_LAP_NUM][i] = df[COL_LAP_NUM][i - 1] + 1
          /\ df[COL_CURRENT_LAP_TIME][i] = 0

\* The docstring example: ten rows of Delta Time 1 s of which only the last
\* meets the boundary rule.
ExampleRun ==
    /\ NRows(df) = 10
    /\ \A i \in 1..10 : df[COL_DELTA_TIME][i] = 1
    /\ \A i \in 1..9 : ~BoundaryRule(i)
    /\ BoundaryRule(10)

C7_RunsToLastRow ==
    /\ Counting =>
          /\ \A i \in Handled :
                \/ LapNumbers[i] = LapBefore(i)
                \/ (LapNumbers[i] = LapBefore(i) + 1 /\ BoundaryRule(i))
          /\ Handled # {} =>
                LapNumbers[Len(LapNumbers)]
                    = 1 + Cardinality({i \in Handled : BoundaryRule(i)})
    /\ pc = "done" =>
          /\ Len(df[COL_LAP_NUM]) = Len(df[COL_DELTA_TIME])
          /\ Len(df[COL_CURRENT_LAP_TIME]) = Len(df[COL_DELTA_TIME])

C7_Witness ==
    /\ pc = "done"
    /\ Len(df[COL_LAP_NUM]) = Len(df[COL_DELTA_TIME])
    /\ BoundaryRule(NRows(df))
    /\ df[COL_LAP_NUM][NRows(df)] = 3
    /\ Cardinality({i \in Handled : BoundaryRule(i)}) = 2

\* C8: find_laps on a table that already has a "Lap Number" column ends in an
\* error and leaves the table as it was: no column added, removed or changed.
C8_DuplicateLapColumn ==
    /\ [][(pc = "start" /\ "Lap Number" \in DOMAIN df) =>
            (pc' = "error" /\ raised' = "NameError" /\ df' = df)]_vars
    /\ [](raised = "NameError" =>
            (pc = "error" /\ "Current Lap Time" \notin DOMAIN df))

C8_Witness ==
    /\ pc = "error"
    /\ raised = "NameError"
    /\ "Lap Number" \in DOMAIN df
    /\ NRows(df) >= 2

\* Every fix is labelled noise.
AllNoise == \A i \in DOMAIN cluster_labels : cluster_labels[i] = -1

ClusterRows(c) == {i \in DOMAIN cluster_labels : cluster_labels[i] = c}

\* C10: with at least one non-noise label the start/finish point is the
\* centroid over exactly the rows of one cluster that has the most points;
\* noise rows and rows of other clusters do not enter it.
C10_CentroidOfLargestCluster ==
    pc = "located" =>
        \E c \in 0..MaxLabel :
            /\ ClusterRows(c) # {}
            /\ \A d \in 0..MaxLabel :
                  Cardinality(ClusterRows(d)) <= Cardinality(ClusterRows(c))
            /\ start[1] = <<SumOver(df[COL_LATITUDE], ClusterRows(c)),
                            Cardinality(ClusterRows(c))>>
            /\ start[2] = <<SumOver(df[COL_LONGITUDE], ClusterRows(c)),
                            Cardinality(ClusterRows(c))>>

C10_Witness ==
    /\ pc = "located"
    /\ ClusterRows(-1) # {}
    /\ ClusterRows(0) # {}
    /\ Cardinality(ClusterRows(1)) > Cardinality(ClusterRows(0))
    /\ start[1][2] = Cardinality(ClusterRows(1))

(***************************************************************************)
(* Claims about the derived channels.                                      *)
(***************************************************************************)
\* The columns derivation function f sets.
Outputs(f) ==
    CASE f = "set_delta_time" -> {COL_DELTA_TIME}
      [] f = "set_Distance_on_GPS_Speed" -> {"Distance on GPS Speed"}
      [] f = "set_GPS_G_Sum" -> {"GPS G Sum"}
      [] f = "set_GPS_BRK_On" -> {"GPS BRK On"}
      [] f = "set_GPS_TPS_On" -> {"GPS TPS On"}
      [] f = "set_GPS_CRN_On" -> {"GPS CRN On"}
      [] f = "set_GPS_CST_On" -> {"GPS CST On"}
      [] f = "set_acceleration" -> {"Acceleration"}
      [] f = "set_vehicle_kinetic_energy" -> {"Vehicle Kinetic Energy"}
      [] f = "set_delta_vehicle_kinetic_energy" -> {"Delta KE"}
      [] f = "set_vehicle_power" -> {"Power - dKE", "Power - mav"}

\* C11: the table is append-only.  A derivation function called while the
\* table already holds a column it sets fails with an error and leaves the
\* table's values and the units dict as they were.
C11_AppendOnly ==
    [][\A f \in Functions :
          (call' = f /\ Outputs(f) \cap DOMAIN df # {})
              => (raised' # "none" /\ df' = df /\ units' = units)]_vars

\* The columns derivation function f reads.
Reads(f) ==
    CASE f = "set_delta_time" -> {"Time"}
      [] f = "set_Distance_on_GPS_Speed" -> {"GPS Speed", COL_DELTA_TIME}
      [] f = "set_GPS_G_Sum" -> {"GPS LonAcc", "GPS LatAcc"}
      [] f = "set_GPS_BRK_On" -> {"GPS LonAcc"}
      [] f = "set_GPS_TPS_On" -> {"GPS LonAcc"}
      [] f = "set_GPS_CRN_On" -> {"GPS LatAcc"}
      [] f = "set_GPS_CST_On" -> {"GPS BRK On", "GPS TPS On", "GPS CRN On"}
      [] f = "set_acceleration" -> {"GPS Speed", COL_DELTA_TIME}
      [] f = "set_vehicle_kinetic_energy" -> {"GPS Speed"}
      [] f = "set_delta_vehicle_kinetic_energy" -> {"Vehicle Kinetic Energy"}
      [] f = "set_vehicle_power" ->
            {"Vehicle Kinetic Energy", COL_DELTA_TIME, "GPS LonAcc", "GPS Speed"}

\* C12: a derivation function called while a column it reads is missing
\* fails with an error that names a missing column, and adds nothing to the
\* table; set_acceleration called before 'Delta Time' exists (on a table
\* holding 'GPS Speed') fails naming 'Delta Time'.
C12_MissingDependency ==
    [][\A f \in Functions :
          (call' = f /\ ~(Reads(f) \subseteq DOMAIN df))
              => /\ raised' = "KeyError"
                 /\ key' \in Reads(f) \ DOMAIN df
                 /\ df' = df
                 /\ units' = units
                 /\ (f = "set_acceleration" /\ "GPS Speed" \in DOMAIN df
                        => key' = COL_DELTA_TIME)]_vars

\* C13: in a run of initialize_channels no step hits a missing column, and
\* a derived column is in the table only when every column its function
\* reads is: 'Delta Time' before the distance, the acceleration and the
\* power, the three flags before the coasting flag, the kinetic energy
\* before its delta and the power.
C13_DependenciesFirst ==
    /\ raised # "KeyError"
    /\ \A f \in Functions :
          Outputs(f) \cap DOMAIN df # {} => Reads(f) \subseteq DOMAIN df

\* initialize_channels has run to its end on a log.
C13_Witness ==
    /\ lr = "initialize_channels"
    /\ step = Len(Pipeline)
    /\ raised = "none"
    /\ \A f \in Functions : Outputs(f) \subseteq DOMAIN df

\* C14: for a log without a "Lap Number" column, once the lap detector has
\* run and written its columns, load_race completes normally and returns the
\* table with "Lap Number" and "Current Lap Time".
C14_FinishedTable ==
    (pc = "done" /\ lr # "find_laps")
        => /\ lr = "returned"
           /\ raised = "none"
           /\ {COL_LAP_NUM, COL_CURRENT_LAP_TIME} \subseteq DOMAIN df

\* The number of rows of the log.
RowCount == Len(df["Time"])

\* C15: the derivation functions and the lap detector preserve the rows:
\* every column of the table holds exactly one value for each row of the
\* log, a NaN where the result is undefined.
C15_RowPreserving ==
    \A c \in DOMAIN df : DOMAIN df[c] = 1..RowCount

\* A log of several rows for which every channel and both lap columns have
\* been set, the acceleration being undefined on some row.
C15_Witness ==
    /\ pc = "done"
    /\ RowCount > 1
    /\ \A f \in Functions : Outputs(f) \subseteq DOMAIN df
    /\ {COL_LAP_NUM, COL_CURRENT_LAP_TIME} \subseteq DOMAIN df
    /\ \E i \in 1..RowCount : df["Acceleration"][i] = NaN

\* The columns set by set_delta, each with the column it is the delta of.
DeltaColumns ==
    {<<"Time", COL_DELTA_TIME>>, <<"Vehicle Kinetic Energy", "Delta KE">>}

\* C16: a delta column is 0 on the first row whatever the first value of its
\* source column, the difference between the row's value and the previous
\* row's value on every later row, and carries the unit of its source column.
C16_Delta ==
    \A p \in DeltaColumns :
        p[2] \in DOMAIN df
            => /\ df[p[2]][1] = 0
               /\ \A i \in 2..RowCount : df[p[2]][i] = df[p[1]][i] - df[p[1]][i - 1]
               /\ units[p[2]] = units[p[1]]

\* Both delta columns are set, the first value of each source column is not
\* 0, and some difference is negative.
C16_Witness ==
    /\ \A p \in DeltaColumns : p[2] \in DOMAIN df /\ df[p[1]][1] # 0
    /\ \E i \in 2..RowCount : df["Delta KE"][i] < 0
    /\ \E i \in 2..RowCount : df[COL_DELTA_TIME][i] > 0

\* The columns set by set_time_derivative, each with the column it derives.
DerivativeColumns ==
    {<<"GPS Speed", "Acceleration">>, <<"Vehicle Kinetic Energy", "Power - dKE">>}

\* The change of column c at row i: nothing precedes the first row.
Change(c, i) == IF i = 1 THEN 0 ELSE df[c][i] - df[c][i - 1]

\* C17: a time derivative is NaN on exactly the rows where 'Delta Time' is 0,
\* and on every other row it is the quotient of the change of its source
\* column by the row's 'Delta Time', a non-zero denominator.
C17_ZeroDivisionSafe ==
    \A p \in DerivativeColumns :
        p[2] \in DOMAIN df
            => \A i \in 1..RowCount :
                  IF df[COL_DELTA_TIME][i] = 0
                  THEN df[p[2]][i] = NaN
                  ELSE df[p[2]][i] = <<Change(p[1], i), df[COL_DELTA_TIME][i]>>

\* Both derivatives are set; on a row after the first the time does not
\* advance while the speed changes, and on another row the quotient is
\* negative.
C17_Witness ==
    /\ \A p \in DerivativeColumns : p[2] \in DOMAIN df
    /\ \E i \in 2..RowCount :
          /\ df[COL_DELTA_TIME][i] = 0
          /\ Change("GPS Speed", i) # 0
          /\ df["Acceleration"][i] = NaN
    /\ \E i \in 2..RowCount :
          /\ df[COL_DELTA_TIME][i] > 0
          /\ Change("Vehicle Kinetic Energy", i) < 0

\* The sum of speed times time delta over the rows 1..i of the table.
RECURSIVE SpeedTimesDelta(_)
SpeedTimesDelta(i) ==
    IF i = 0 THEN 0
    ELSE SpeedTimesDelta(i - 1) + df["GPS Speed"][i] * df[COL_DELTA_TIME][i]

\* C18: 'Distance on GPS Speed' is 0 on the first row and, on every row, the
\* sum over the rows before it of speed times time delta; the speeds and
\* time deltas not being negative, the column never decreases.
C18_Distance ==
    "Distance on GPS Speed" \in DOMAIN df
        => /\ df["Distance on GPS Speed"][1] = 0
           /\ \A i \in 1..RowCount :
                 df["Distance on GPS Speed"][i] = SpeedTimesDelta(i - 1)
           /\ \A i \in 2..RowCount :
                 df["Distance on GPS Speed"][i] >= df["Distance on GPS Speed"][i - 1]

\* The distance is set and grows on two rows, the car moving on the last row
\* as well.
C18_Witness ==
    /\ "Distance on GPS Speed" \in DOMAIN df
    /\ RowCount = 4
    /\ df["Distance on GPS Speed"][3] > df["Distance on GPS Speed"][2]
    /\ df["Distance on GPS Speed"][4] > df["Distance on GPS Speed"][3]
    /\ df["GPS Speed"][4] * df[COL_DELTA_TIME][4] > 0
    /\ df["GPS Speed"][2] # df["GPS Speed"][3]

\* C19: each state flag is 0 or 1 on every row, and is 1 exactly when its
\* strict threshold is passed: braking below -0.15 g, throttle above 0.05 g,
\* cornering beyond 0.20 g to either side; a value at a threshold gives 0.
C19_StrictThresholds ==
    /\ "GPS BRK On" \in DOMAIN df
          => \A i \in 1..RowCount :
                /\ df["GPS BRK On"][i] \in {0, 1}
                /\ df["GPS BRK On"][i] = 1 <=> df["GPS LonAcc"][i] < BRK_THRESHOLD
    /\ "GPS TPS On" \in DOMAIN df
          => \A i \in 1..RowCount :
                /\ df["GPS TPS On"][i] \in {0, 1}
                /\ df["GPS TPS On"][i] = 1 <=> df["GPS LonAcc"][i] > TPS_THRESHOLD
    /\ "GPS CRN On" \in DOMAIN df
          => \A i \in 1..RowCount :
                /\ df["GPS CRN On"][i] \in {0, 1}
                /\ df["GPS CRN On"][i] = 1
                      <=> \/ df["GPS LatAcc"][i] > CRN_THRESHOLD
                          \/ df["GPS LatAcc"][i] < -CRN_THRESHOLD

\* The three flags are set on a log with a row at the braking threshold, a
\* row at the throttle threshold, rows at the cornering threshold on either
\* side, all with flag 0, and a row that brakes and corners.
C19_Witness ==
    /\ {"GPS BRK On", "GPS TPS On", "GPS CRN On"} \subseteq DOMAIN df
    /\ \E i \in 1..RowCount :
          df["GPS LonAcc"][i] = BRK_THRESHOLD /\ df["GPS BRK On"][i] = 0
    /\ \E i \in 1..RowCount :
          df["GPS LonAcc"][i] = TPS_THRESHOLD /\ df["GPS TPS On"][i] = 0
    /\ \E i \in 1..RowCount :
          df["GPS LatAcc"][i] = CRN_THRESHOLD /\ df["GPS CRN On"][i] = 0
    /\ \E i \in 1..RowCount :
          df["GPS LatAcc"][i] = -CRN_THRESHOLD /\ df["GPS CRN On"][i] = 0
    /\ \E i \in 1..RowCount :
          df["GPS BRK On"][i] = 1 /\ df["GPS CRN On"][i] = 1

\* C20: on every row the coasting flag is 1 exactly when the braking, the
\* throttle and the cornering flag are all 0, so it is never 1 together with
\* one of them.
C20_CoastingExclusive ==
    "GPS CST On" \in DOMAIN df
        => \A i \in 1..RowCount :
              /\ df["GPS CST On"][i] = 1
                    <=> /\ df["GPS BRK On"][i] = 0
                        /\ df["GPS TPS On"][i] = 0
                        /\ df["GPS CRN On"][i] = 0
              /\ ~(/\ df["GPS CST On"][i] = 1
                   /\ 1 \in {df["GPS BRK On"][i], df["GPS TPS On"][i], df["GPS CRN On"][i]})

\* The coasting flag is set on a log with a coasting row, a row that only
\* brakes and a row that brakes and corners.
C20_Witness ==
    /\ "GPS CST On" \in DOMAIN df
    /\ \E i \in 1..RowCount : df["GPS CST On"][i] = 1
    /\ \E i \in 1..RowCount :
          /\ df["GPS CST On"][i] = 0
          /\ df["GPS BRK On"][i] = 1
          /\ df["GPS TPS On"][i] = 0
          /\ df["GPS CRN On"][i] = 0
    /\ \E i \in 1..RowCount :
          /\ df["GPS CST On"][i] = 0
          /\ df["GPS BRK On"][i] = 1
          /\ df["GPS CRN On"][i] = 1

C30_BrakingThrottleExclusive ==
    {"GPS BRK On", "GPS TPS On"} \subseteq DOMAIN df
        => \A i \in 1..RowCount :
              ~(df["GPS BRK On"][i] = 1 /\ df["GPS TPS On"][i] = 1)

\* Both flags are set on a log with a braking row, a throttle row and a row
\* that is neither.
C30_Witness ==
    /\ {"GPS BRK On", "GPS TPS On"} \subseteq DOMAIN df
    /\ \E i \in 1..RowCount : df["GPS BRK On"][i] = 1 /\ df["GPS TPS On"][i] = 0
    /\ \E i \in 1..RowCount : df["GPS BRK On"][i] = 0 /\ df["GPS TPS On"][i] = 1
    /\ \E i \in 1..RowCount : df["GPS BRK On"][i] = 0 /\ df["GPS TPS On"][i] = 0

(***************************************************************************)
(* columns_during_state (df_utils.py): data columns masked by state        *)
(* columns.  A value of the returned columns is <<x>>, or NaN on a row     *)
(* that is masked out and not filled.                                      *)
(***************************************************************************)
\* Tables of up to MaxMaskRows rows with two data columns and two state
\* columns; a state column may hold the value 2.
MaskTables ==
    UNION {{("Time" :> [i \in 1..n |-> 10 * i])
            @@ ("GPS Speed" :> [i \in 1..n |-> 2 * i])
            @@ ("GPS BRK On" :> brk)
            @@ ("GPS CRN On" :> crn) :
               brk \in [1..n -> {0, 1, 2}], crn \in [1..n -> {0, 1, 2}]} :
           n \in 1..MaxMaskRows}

\* The data columns and the state columns a call names; 'Torque' and
\* 'Brake Switch' are in no table.
DataColumnChoices ==
    {<<"GPS Speed">>, <<"GPS Speed", "Time">>, <<"GPS Speed", "Torque">>}

StateColumnChoices ==
    {<<"GPS BRK On">>, <<"GPS CRN On">>, <<"GPS BRK On", "GPS CRN On">>,
     <<"GPS BRK On", "Brake Switch">>}

\* The names in a list of column names.
Names(columns) == {columns[k] : k \in DOMAIN columns}

\* A utility returned value, or raised exc and returned nothing.
Returned(value) == [raised |-> "none", ret |-> value]

Raised(exc) == [raised |-> exc, ret |-> <<>>]

\* The same with any value accepted.
OnlyZeroOne_Unchecked(col) == TRUE

\* df[state_column].isin([0, 1]).all()
OnlyZeroOne(col) == \A i \in DOMAIN col : col[i] \in {0, 1}

\* The same with any state column being enough in both modes.
IsOn_Any(t, state_columns, all_states_must_be_on, i) ==
    \E k \in DOMAIN state_columns : t[state_columns[k]][i] # 0

\* state_df.all(axis=1) or state_df.any(axis=1), on row i.
IsOn(t, state_columns, all_states_must_be_on, i) ==
    IF all_states_must_be_on
    THEN \A k \in DOMAIN state_columns : t[state_columns[k]][i] # 0
    ELSE \E k \in DOMAIN state_columns : t[state_columns[k]][i] # 0

\* The name of a returned column.
NewColumnName(column_name, append_to_column_name) ==
    IF append_to_column_name = "" THEN column_name
    ELSE column_name \o " " \o append_to_column_name

\* The returned columns: where(is_on) leaves NaN on the other rows,
\* where(is_on, other=Q_(0, unit)) a zero of the column's unit.
Masked(t, u, at, data_columns, state_columns, append_to_column_name, fill_with_zeros, all_states_must_be_on) ==
    LET new_names ==
            {NewColumnName(c, append_to_column_name) : c \in Names(data_columns)}
        old(nc) ==
            CHOOSE c \in Names(data_columns) :
                NewColumnName(c, append_to_column_name) = nc
    IN  [df |-> [nc \in new_names |->
                    [i \in DOMAIN t[old(nc)] |->
                        IF IsOn(t, state_columns, all_states_must_be_on, i)
                        THEN <<t[old(nc)][i]>>
                        ELSE IF fill_with_zeros THEN <<0>> ELSE NaN]],
         units |-> [nc \in new_names |-> u[old(nc)]],
         attrs |-> at,
         series |-> Cardinality(new_names) = 1]

columns_during_state(t, u, at, data_columns, state_columns, append_to_column_name, fill_with_zeros, all_states_must_be_on) ==
    IF ~(Names(data_columns) \subseteq DOMAIN t) THEN Raised("ValueError")
    ELSE IF ~(Names(state_columns) \subseteq DOMAIN t) THEN Raised("ValueError")
    ELSE IF \E k \in DOMAIN state_columns : ~OnlyZeroOne(t[state_columns[k]])
         THEN Raised("ValueError")
    ELSE Returned(Masked(t, u, at, data_columns, state_columns,
                         append_to_column_name, fill_with_zeros,
                         all_states_must_be_on))

InitMask ==
    /\ df \in MaskTables
    /\ units = UnitsDict(df)
    /\ raised = "none"
    /\ call = "none"
    /\ key = ""
    /\ lr = "none"
    /\ step = 0
    /\ UtilitiesIdle
    /\ LapDetectorIdle

ColumnsDuringState ==
    /\ raised = "none"
    /\ \E dc \in DataColumnChoices, sc \in StateColumnChoices,
          a \in {"", "braking"}, fill \in BOOLEAN, all \in BOOLEAN :
        LET r == columns_during_state(df, units, attrs, dc, sc, a, fill, all)
        IN  /\ call' = "columns_during_state"
            /\ args' = [data_columns |-> dc, state_columns |-> sc,
                        append_to_column_name |-> a, fill_with_zeros |-> fill,
                        all_states_must_be_on |-> all]
            /\ raised' = r.raised
            /\ ret' = r.ret
    /\ UNCHANGED <<df, units, key, lr, step, lapVars, attrs, shared, cache, files>>

NextMask == ColumnsDuringState

SpecMask == InitMask /\ [][NextMask]_vars

\* Row i of the table passes the state columns named in the last call.
Kept(i) ==
    IF Len(args.state_columns) = 1
    THEN df[args.state_columns[1]][i] = 1
    ELSE IF args.all_states_must_be_on
         THEN \A k \in DOMAIN args.state_columns : df[args.state_columns[k]][i] = 1
         ELSE \E k \in DOMAIN args.state_columns : df[args.state_columns[k]][i] = 1

\* The name under which data column c is returned by the last call.
ReturnedName(c) ==
    IF args.append_to_column_name = "" THEN c
    ELSE c \o " " \o args.append_to_column_name

\* C21: masking with a state column that holds a value other than 0 and 1,
\* or naming a data or state column the table does not have, fails with an
\* error and returns nothing.
C21_InvalidMaskFails ==
    call = "columns_during_state"
        => ((\/ \E k \in DOMAIN args.data_columns : args.data_columns[k] \notin DOMAIN df
             \/ \E k \in DOMAIN args.state_columns :
                   \/ args.state_columns[k] \notin DOMAIN df
                   \/ \E i \in DOMAIN df[args.state_columns[k]] :
                         df[args.state_columns[k]][i] \notin {0, 1})
               => raised = "ValueError" /\ ret = <<>>)

\* Every named column is in the table, a state column holds a 2, and the
\* call has failed.
C21_Witness ==
    /\ call = "columns_during_state"
    /\ raised = "ValueError"
    /\ Names(args.data_columns) \cup Names(args.state_columns) \subseteq DOMAIN df
    /\ \E k \in DOMAIN args.state_columns :
          \E i \in DOMAIN df[args.state_columns[k]] : df[args.state_columns[k]][i] = 2

\* C22: a call that returns gives, for each data column, one value per row:
\* the row's value where every state column is 1 (or, in the any mode, some
\* state column is 1), and elsewhere 0 when filling with zeros and NaN
\* otherwise; the column keeps its unit; with one state column the mode makes
\* no difference.
C22_Masking ==
    (call = "columns_during_state" /\ raised = "none")
        => \A k \in DOMAIN args.data_columns :
              LET c == args.data_columns[k]
                  nc == ReturnedName(c)
              IN  /\ nc \in DOMAIN ret.df
                  /\ DOMAIN ret.df[nc] = DOMAIN df[c]
                  /\ ret.units[nc] = units[c]
                  /\ \A i \in DOMAIN df[c] :
                        ret.df[nc][i] =
                            IF Kept(i) THEN <<df[c][i]>>
                            ELSE IF args.fill_with_zeros THEN <<0>> ELSE NaN

\* Two data columns masked by two state columns that must both be on,
\* without filling: one row is kept and another, with one state on, is not.
C22_Witness ==
    /\ call = "columns_during_state"
    /\ raised = "none"
    /\ Len(args.data_columns) = 2
    /\ Len(args.state_columns) = 2
    /\ args.all_states_must_be_on
    /\ ~args.fill_with_zeros
    /\ \E i \in DOMAIN df["Time"] : ret.df[ReturnedName("Time")][i] = <<df["Time"][i]>>
    /\ \E i \in DOMAIN df["Time"] :
          /\ ret.df[ReturnedName("Time")][i] = NaN
          /\ df["GPS BRK On"][i] # df["GPS CRN On"][i]

(***************************************************************************)
(* slice_into_df and copy_attrs_to_new_df (df_utils.py).  An index that is *)
(* not given is None, one that is given is <<k>>.  Row labels and iloc     *)
(* positions count from 0, as in the source.                               *)
(***************************************************************************)
None == <<>>

\* Tables of up to MaxSliceRows rows.
SliceTables ==
    {("Time" :> [i \in 1..n |-> 10 * i]) @@ ("GPS Speed" :> [i \in 1..n |-> 2 * i]) :
        n \in 1..MaxSliceRows}

\* The indices a call may give for a table of n rows: none, negative ones,
\* rows of the table and indices beyond its end.
IndexChoices(n) == {None} \cup {<<k>> : k \in -2..n + 1}

\* start_index, 0 when it is not given.
StartIndex(start_index) == IF start_index = None THEN 0 ELSE start_index[1]

\* The same with the end index taken as given.
EndIndex_Unclamped(end_index, n) ==
    IF end_index = None THEN n - 2 ELSE end_index[1]

\* end_index, len(df) - 2 when it is not given or beyond that.
EndIndex(end_index, n) ==
    IF end_index = None THEN n - 2
    ELSE IF end_index[1] > n - 2 THEN n - 2 ELSE end_index[1]

\* A bound of a Python slice over n positions: a negative bound counts from
\* the end, and the bound is brought into 0..n.
SliceBound(b, n) ==
    IF b < 0 THEN (IF b + n < 0 THEN 0 ELSE b + n)
    ELSE IF b > n THEN n ELSE b

\* df.iloc[start:stop], with the labels of its rows.
ILoc(t, first, stop) ==
    LET n == Rows(t)
        a == SliceBound(first, n)
        b == SliceBound(stop, n)
    IN  [df |-> [c \in DOMAIN t |-> SubSeq(t[c], a + 1, b)],
         index |-> [k \in 1..(IF b > a THEN b - a ELSE 0) |-> a + k - 1]]

\* copy_attrs_to_new_df: the attrs setter keeps a dict of its own.
copy_attrs_to_new_df(original_attrs, new_df) ==
    [df |-> new_df.df, index |-> new_df.index, attrs |-> original_attrs]

slice_into_df(t, at, start_index, end_index) ==
    copy_attrs_to_new_df(at,
        ILoc(t, StartIndex(start_index), EndIndex(end_index, Rows(t)) + 1))

InitSlice ==
    /\ df \in SliceTables
    /\ units = UnitsDict(df)
    /\ raised = "none"
    /\ call = "none"
    /\ key = ""
    /\ lr = "none"
    /\ step = 0
    /\ attrs \in {<<>>, LoadedAttrs}
    /\ args = <<>>
    /\ ret = <<>>
    /\ shared = FALSE
    /\ cache = NotLoaded
    /\ files = <<>>
    /\ LapDetectorIdle

\* slice_into_df(df, start_index, end_index).  Whether the rows returned by
\* iloc are views of the table's or copies depends on the pandas in use
\* (copy-on-write or not).
SliceIntoDf ==
    /\ call \in {"none", "slice_into_df"}
    /\ \E s \in IndexChoices(Rows(df)), e \in IndexChoices(Rows(df)) :
        /\ args' = [start_index |-> s, end_index |-> e]
        /\ ret' = slice_into_df(df, attrs, s, e)
    /\ shared' \in BOOLEAN
    /\ call' = "slice_into_df"
    /\ UNCHANGED <<df, units, raised, key, lr, step, lapVars, attrs, cache, files>>

\* The value a caller writes into a table.  A caller takes slices of the
\* table and then writes once, into the last slice or into the table.
Written == 99

\* The caller writes a speed in place into row k of the slice.
WriteSlice ==
    /\ call = "slice_into_df"
    /\ \E k \in DOMAIN ret.index :
        /\ ret' = [ret EXCEPT !.df["GPS Speed"][k] = Written]
        /\ df' = IF shared
                 THEN [df EXCEPT !["GPS Speed"][ret.index[k] + 1] = Written]
                 ELSE df
    /\ call' = "write_slice"
    /\ UNCHANGED <<units, raised, key, lr, step, lapVars, attrs, args, shared, cache, files>>

\* The caller writes a speed in place into row i of the table.
WriteOriginal ==
    /\ call = "slice_into_df"
    /\ \E i \in 1..Rows(df) :
        /\ df' = [df EXCEPT !["GPS Speed"][i] = Written]
        /\ ret' = IF shared /\ \E k \in DOMAIN ret.index : ret.index[k] = i - 1
                  THEN LET k == CHOOSE k \in DOMAIN ret.index : ret.index[k] = i - 1
                       IN  [ret EXCEPT !.df["GPS Speed"][k] = Written]
                  ELSE ret
    /\ call' = "write_original"
    /\ UNCHANGED <<units, raised, key, lr, step, lapVars, attrs, args, shared, cache, files>>

\* The caller sets a key of the slice's attrs.
SetSliceAttrs ==
    /\ call = "slice_into_df"
    /\ ret' = [ret EXCEPT !.attrs = ("note" :> "slice") @@ ret.attrs]
    /\ call' = "set_slice_attrs"
    /\ UNCHANGED <<df, units, raised, key, lr, step, lapVars, attrs, args, shared, cache, files>>

\* The caller sets a key of the table's attrs.
SetOriginalAttrs ==
    /\ call = "slice_into_df"
    /\ attrs' = ("note" :> "original") @@ attrs
    /\ call' = "set_original_attrs"
    /\ UNCHANGED <<df, units, raised, key, lr, step, lapVars, ret, args, shared, cache, files>>

NextSlice ==
    \/ SliceIntoDf
    \/ WriteSlice
    \/ WriteOriginal
    \/ SetSliceAttrs
    \/ SetOriginalAttrs

SpecSlice == InitSlice /\ [][NextSlice]_vars

\* The rows first..last of the table, with their labels.
RowsBetween(first, last) ==
    [df |-> [c \in DOMAIN df |-> SubSeq(df[c], first + 1, last + 1)],
     index |-> [k \in 1..(IF last >= first THEN last - first + 1 ELSE 0) |-> first + k - 1]]

C24_NoSharedState ==
    [][/\ call' \in {"write_slice", "set_slice_attrs"} => df' = df /\ attrs' = attrs
       /\ call' \in {"write_original", "set_original_attrs"} => ret' = ret]_vars

(***************************************************************************)
(* set_df_column called directly, with a Series of any length.             *)
(***************************************************************************)
\* A table without columns, and tables of up to MaxColumnRows rows.
ColumnTables ==
    {<<>>}
    \cup {("Time" :> [i \in 1..n |-> 10 * i]) @@ ("GPS Speed" :> [i \in 1..n |-> 2 * i]) :
             n \in 1..MaxColumnRows}

\* The Series a call gives: up to one value more than the largest table has
\* rows.
SeriesChoices == UNION {[1..m -> {1, 2}] : m \in 0..MaxColumnRows + 1}

InitColumn ==
    /\ df \in ColumnTables
    /\ units = UnitsDict(df)
    /\ raised = "none"
    /\ call = "none"
    /\ key = ""
    /\ lr = "none"
    /\ step = 0
    /\ UtilitiesIdle
    /\ LapDetectorIdle

\* set_df_column(df, units, 'Gear', data, 'gear')
SetDfColumn ==
    /\ raised = "none"
    /\ \E data \in SeriesChoices :
        LET r == set_df_column(df, units, "Gear", data, "gear")
        IN  /\ args' = [name |-> "Gear", data |-> data, column_units |-> "gear"]
            /\ df' = r.df
            /\ units' = r.units
            /\ raised' = r.raised
            /\ key' = r.key
    /\ call' = "set_df_column"
    /\ UNCHANGED <<lr, step, lapVars, attrs, ret, shared, cache, files>>

NextColumn == SetDfColumn

SpecColumn == InitColumn /\ [][NextColumn]_vars

\* C25: adding a column whose number of values differs from the number of
\* rows of the table fails with an error and leaves the table unchanged,
\* unless the table has no column yet.
C25_LengthMismatchFails ==
    [][(/\ call' = "set_df_column"
        /\ DOMAIN df # {}
        /\ Len(args'.data) # Rows(df))
          => (raised' # "none" /\ df' = df /\ units' = units)]_vars

(***************************************************************************)
(* The lap-times lookup: time_utils.py and the cache of laps_data.py.      *)
(*                                                                         *)
(* A str is the sequence of its characters.  A float of seconds is         *)
(* <<"float", n>> with n in thousandths of a second.  A path is            *)
(* <<directory, basename>>.                                                *)
(***************************************************************************)
LAP_TIMES_FILEPATH == "data/lap_times.json"

\* '01:05.250' and '00:59.005'
TimeStrings ==
    {<<"0", "1", ":", "0", "5", ".", "2", "5", "0">>,
     <<"0", "0", ":", "5", "9", ".", "0", "0", "5">>}

\* Whether x has the str methods.
IsStr(x) == x = <<>> \/ x[1] # "float"

Digit(c) ==
    CASE c = "0" -> 0 [] c = "1" -> 1 [] c = "2" -> 2 [] c = "3" -> 3
      [] c = "4" -> 4 [] c = "5" -> 5 [] c = "6" -> 6 [] c = "7" -> 7
      [] c = "8" -> 8 [] c = "9" -> 9

\* int(digits)
RECURSIVE Int_(_)
Int_(digits) ==
    IF digits = <<>> THEN 0
    ELSE 10 * Int_(SubSeq(digits, 1, Len(digits) - 1)) + Digit(digits[Len(digits)])

\* a, b = s.split(sep) for a str with one sep
Split(s, sep) ==
    LET k == CHOOSE i \in DOMAIN s : s[i] = sep
    IN  <<SubSeq(s, 1, k - 1), SubSeq(s, k + 1, Len(s))>>

\* minute * 60 + seconds + milliseconds, with float(milliseconds) / 1000
\* being milliseconds thousandths.
TotalSeconds(minute, seconds, milliseconds) ==
    <<"float", minute * 60000 + seconds * 1000 + milliseconds>>

\* convert_time_str_to_seconds: a float has no split.
convert_time_str_to_seconds(time_str) ==
    IF ~IsStr(time_str) THEN Raised("AttributeError")
    ELSE LET parts == Split(time_str, ":")
             rest == Split(parts[2], ".")
         IN  Returned(TotalSeconds(Int_(parts[1]), Int_(rest[1]), Int_(rest[2])))

\* convert_time_list_to_seconds
convert_time_list_to_seconds(time_list) ==
    IF \E i \in DOMAIN time_list : convert_time_str_to_seconds(time_list[i]).raised # "none"
    THEN Raised("AttributeError")
    ELSE Returned([i \in DOMAIN time_list |-> convert_time_str_to_seconds(time_list[i]).ret])

\* os.path.basename
get_filename(filepath) == filepath[2]

\* What a lookup gives back: the cache after it, and what it returned or
\* raised.
Looked(c, outcome) == [cache |-> c, raised |-> outcome.raised, ret |-> outcome.ret]

\* _initialize_lap_data_from_json
initialize_lap_data_from_json(c, fs, lap_times_json_filepath) ==
    IF c.loaded /\ lap_times_json_filepath = LAP_TIMES_FILEPATH
    THEN Looked(c, Returned(c.data))
    ELSE IF lap_times_json_filepath \notin DOMAIN fs
    THEN Looked(c, Raised("FileNotFoundError"))
    ELSE LET all_lap_data == fs[lap_times_json_filepath]
             converted == [d \in DOMAIN all_lap_data |->
                              convert_time_list_to_seconds(all_lap_data[d].lap_times)]
             loaded == [d \in DOMAIN all_lap_data |->
                           [all_lap_data[d] EXCEPT !.lap_times = converted[d].ret]]
         IN  IF \E d \in DOMAIN all_lap_data : converted[d].raised # "none"
             THEN Looked(c, Raised("AttributeError"))
             ELSE Looked([loaded |-> TRUE, data |-> loaded], Returned(loaded))

\* lap_data of get_usable_lap_nums and get_lap_times
LapData(c, fs, lap_times_json_filepath) ==
    IF lap_times_json_filepath # LAP_TIMES_FILEPATH
    THEN initialize_lap_data_from_json(c, fs, lap_times_json_filepath)
    ELSE Looked(c, Returned(c.data))

\* get_usable_lap_nums
get_usable_lap_nums(c, fs, dataset_filename, lap_times_json_filepath) ==
    LET found == LapData(c, fs, lap_times_json_filepath)
        lap_data == found.ret
        name == get_filename(dataset_filename)
    IN  IF found.raised # "none" THEN found
        ELSE IF name \notin DOMAIN lap_data THEN Looked(found.cache, Raised("KeyError"))
        ELSE Looked(found.cache,
                    Returned(SelectSeq([k \in 1..(lap_data[name].last_lap
                                                   - lap_data[name].first_lap + 1) |->
                                           lap_data[name].first_lap + k - 1],
                                       LAMBDA lap_num :
                                           \A j \in DOMAIN lap_data[name].skip_laps :
                                               lap_data[name].skip_laps[j] # lap_num)))

\* get_lap_times
get_lap_times(c, fs, dataset_filename, lap_times_json_filepath) ==
    LET found == LapData(c, fs, lap_times_json_filepath)
        lap_data == found.ret
        name == get_filename(dataset_filename)
        every == [d \in DOMAIN lap_data |->
                     convert_time_list_to_seconds(lap_data[d].lap_times)]
    IN  IF found.raised # "none" THEN found
        ELSE IF dataset_filename = None
        THEN IF \E d \in DOMAIN lap_data : every[d].raised # "none"
             THEN Looked(found.cache, Raised("AttributeError"))
             ELSE Looked(found.cache, Returned([d \in DOMAIN lap_data |-> every[d].ret]))
        ELSE IF name \notin DOMAIN lap_data THEN Looked(found.cache, Raised("KeyError"))
        ELSE Looked(found.cache, convert_time_list_to_seconds(lap_data[name].lap_times))

\* The lap_times lists of a file.
TimeLists == UNION {[1..m -> TimeStrings] : m \in 0..MaxLapTimes}

\* A dataset's entry of a file.
LapEntries ==
    {[lap_times |-> lt, skip_laps |-> sk, first_lap |-> 1, last_lap |-> 3] :
        lt \in TimeLists, sk \in {<<>>, <<2>>}}

\* The content of a lap-times file: an entry for 'log.csv', and possibly one
\* for 'run.csv'.
FileContents ==
    {("log.csv" :> e) : e \in LapEntries}
    \cup {("log.csv" :> e) @@ ("run.csv" :> [lap_times |-> <<>>, skip_laps |-> <<3>>,
                                            first_lap |-> 2, last_lap |-> 3]) :
             e \in LapEntries}

\* The paths a caller gives: the default file, another file, no file.
PathChoices == {LAP_TIMES_FILEPATH, "data/other_lap_times.json", "data/missing.json"}

\* The datasets a caller names.
DatasetChoices == {<<"data/formatted", "log.csv">>, <<"", "run.csv">>}

InitLapTimes ==
    /\ \E a \in FileContents, b \in FileContents :
        files = (LAP_TIMES_FILEPATH :> a) @@ ("data/other_lap_times.json" :> b)
    /\ cache = NotLoaded
    /\ attrs = <<>>
    /\ args = <<>>
    /\ ret = <<>>
    /\ shared = FALSE
    /\ df = <<>>
    /\ units = <<>>
    /\ raised = "none"
    /\ call = "none"
    /\ key = ""
    /\ lr = "none"
    /\ step = 0
    /\ LapDetectorIdle

\* import of laps_data: LAP_JSON_DATA = _initialize_lap_data_from_json()
ImportLapsData ==
    /\ ~cache.loaded
    /\ LET r == initialize_lap_data_from_json(cache, files, LAP_TIMES_FILEPATH)
       IN  /\ cache' = r.cache
           /\ raised' = r.raised
    /\ call' = "import"
    /\ UNCHANGED <<df, units, key, lr, step, lapVars, attrs, args, ret, shared, files>>

\* get_lap_times(dataset_filename, lap_times_json_filepath)
GetLapTimes ==
    /\ cache.loaded
    /\ raised = "none"
    /\ \E d \in DatasetChoices \cup {None}, p \in PathChoices :
        LET r == get_lap_times(cache, files, d, p)
        IN  /\ args' = [dataset_filename |-> d, lap_times_json_filepath |-> p]
            /\ cache' = r.cache
            /\ raised' = r.raised
            /\ ret' = r.ret
    /\ call' = "get_lap_times"
    /\ UNCHANGED <<df, units, key, lr, step, lapVars, attrs, shared, files>>

\* get_usable_lap_nums(dataset_filename, lap_times_json_filepath)
GetUsableLapNums ==
    /\ cache.loaded
    /\ raised = "none"
    /\ \E d \in DatasetChoices, p \in PathChoices :
        LET r == get_usable_lap_nums(cache, files, d, p)
        IN  /\ args' = [dataset_filename |-> d, lap_times_json_filepath |-> p]
            /\ cache' = r.cache
            /\ raised' = r.raised
            /\ ret' = r.ret
    /\ call' = "get_usable_lap_nums"
    /\ UNCHANGED <<df, units, key, lr, step, lapVars, attrs, shared, files>>

NextLapTimes == ImportLapsData \/ GetLapTimes \/ GetUsableLapNums

SpecLapTimes == InitLapTimes /\ [][NextLapTimes]_vars

\* The lap times a file lists for a dataset, each in seconds.
SecondsOf(path, name) ==
    [i \in DOMAIN files[path][name].lap_times |->
        TotalSeconds(Int_(SubSeq(files[path][name].lap_times[i], 1, 2)),
                     Int_(SubSeq(files[path][name].lap_times[i], 4, 5)),
                     Int_(SubSeq(files[path][name].lap_times[i], 7, 9)))]

\* C27: get_lap_times returns the lap times in seconds: for a dataset whose
\* lap_times of the file are not empty, the call returns, and what it
\* returns is each 'MM:SS.sss' string of the file converted to seconds once.
C27_SecondsOnce ==
    (/\ call = "get_lap_times"
     /\ args.dataset_filename # None
     /\ args.lap_times_json_filepath \in DOMAIN files
     /\ get_filename(args.dataset_filename)
            \in DOMAIN files[args.lap_times_json_filepath]
     /\ files[args.lap_times_json_filepath][get_filename(args.dataset_filename)].lap_times
            # <<>>)
        => (/\ raised = "none"
            /\ ret = SecondsOf(args.lap_times_json_filepath,
                               get_filename(args.dataset_filename)))

\* C28: the process-wide cache always holds the default file's data, so a
\* lookup with another path leaves it as it was.
C28_CacheHoldsDefault ==
    cache.loaded
        => /\ DOMAIN cache.data = DOMAIN files[LAP_TIMES_FILEPATH]
           /\ \A d \in DOMAIN cache.data :
                /\ cache.data[d].lap_times = SecondsOf(LAP_TIMES_FILEPATH, d)
                /\ cache.data[d].skip_laps = files[LAP_TIMES_FILEPATH][d].skip_laps
                /\ cache.data[d].first_lap = files[LAP_TIMES_FILEPATH][d].first_lap
                /\ cache.data[d].last_lap = files[LAP_TIMES_FILEPATH][d].last_lap

(***************************************************************************)
(* get_lap_indices on the table find_laps returns.                         *)
(***************************************************************************)
\* Logs of up to MaxRows rows at the two outer places, and what find_laps
\* refuses.
IndexTables ==
    UNION {RawTables(n, DeltaTimes, OuterPoints) : n \in 1..MaxRows}
    \cup {WithLapColumn(t) : t \in RawTables(1, {10}, OuterPoints)}

\* The values of df['Lap Number'].
LapNumberValues(t) == {t[COL_LAP_NUM][i] : i \in 1..NRows(t)}

\* df.loc[df['Lap Number'] == lap_number].index: the labels of the lap's
\* rows in the order of the table; the labels are 0, 1, ...
LapIndex(t, lap_number) ==
    LET labels == [i \in 1..NRows(t) |-> i - 1]
    IN  SelectSeq(labels, LAMBDA l : t[COL_LAP_NUM][l + 1] = lap_number)

\* The same taking the label after the last.
LapEndIndex_Past(labels) == labels[Len(labels)] + 1

\* .index[-1]
LapEndIndex(labels) == labels[Len(labels)]

\* get_lap_indices: indexing the rows of a lap that has none raises.
get_lap_indices(t) ==
    LET start_lap == CHOOSE a \in LapNumberValues(t) :
                         \A b \in LapNumberValues(t) : a <= b
        end_lap == CHOOSE a \in LapNumberValues(t) :
                       \A b \in LapNumberValues(t) : a >= b
    IN  IF \E lap_number \in start_lap..end_lap : LapIndex(t, lap_number) = <<>>
        THEN Raised("IndexError")
        ELSE Returned([lap_number \in start_lap..end_lap |->
                          <<LapIndex(t, lap_number)[1],
                            LapEndIndex(LapIndex(t, lap_number))>>])

InitIndices ==
    /\ df \in IndexTables
    /\ units = UnitsDict(df)
    /\ call = "none"
    /\ key = ""
    /\ lr = "none"
    /\ step = 0
    /\ UtilitiesIdle
    /\ pc = "start"
    /\ raised = "none"
    /\ cluster_labels = <<>>
    /\ start = <<>>
    /\ index = 0
    /\ current_lap = 0
    /\ current_lap_time = 0
    /\ is_new_lap = FALSE
    /\ lap_numbers = <<>>
    /\ lap_times = <<>>

\* get_lap_indices(df) on what find_laps returned
GetLapIndices ==
    /\ pc = "done"
    /\ call = "none"
    /\ LET r == get_lap_indices(df)
       IN  /\ raised' = r.raised
           /\ ret' = r.ret
    /\ call' = "get_lap_indices"
    /\ UNCHANGED <<df, units, key, lr, step, lapVars, attrs, args, shared, cache, files>>

NextIndices == Next \/ GetLapIndices

SpecIndices == InitIndices /\ [][NextIndices]_vars

====
